---- MODULE Spec2Model ----
(***************************************************************************)
(* PRANA audio processing engine (src/src/components/prana/               *)
(* AudioProcessor.jsx): the rolling sample buffer, the severity ranking    *)
(* queue, the noise gate, the sliding-window segmentation, the peak        *)
(* detector, the analysis pipeline and the threshold classifier.           *)
(*                                                                         *)
(* Each component has its own specification over the shared variables;     *)
(* a specification leaves the variables of the other components alone.     *)
(***************************************************************************)
EXTENDS Integers, Sequences, FiniteSets, TLC

VARIABLES
    cb,          \* the CircularBuffer object: buffer, size, head, tail, count
    delivered,   \* history: every value handed to push/pushArray, in order
    cbOp,        \* the CircularBuffer method that ran last
    cbResult,    \* the array the last toArray() returned
    pq,          \* the PriorityQueue object: items
    pqCount,     \* history: number of enqueue calls so far
    pqOp,        \* the PriorityQueue method that ran last, with its arguments
    featureMap,  \* the FeatureMap contents handed to classifyBreathing
    clsPc,       \* "ready" before the classifier ran, "done" after
    clsOut,      \* what classifyBreathing returned and left in the queue
    clsPrev,     \* what the classifier run before the last one returned
    noiseIn,     \* removeNoise: its arguments signal, noiseThreshold
    noisePc,     \* "ready" before the call, "done" after
    noiseOut,    \* removeNoise: the returned array
    winIn,       \* slidingWindowAnalysis: signal, windowSize, hopSize, sampleRate
    winPc,
    winOut,      \* slidingWindowAnalysis: the returned frames
    peakIn,      \* detectPeaks: its arguments signal, threshold
    peakPc,
    peakOut,     \* detectPeaks: the returned peaks
    recIn,       \* analyzeBreathing: the recording and its sample rate
    recPc,
    report,      \* analyzeBreathing: the returned report
    featIn,      \* the frame handed to the frame feature functions
    featPc,
    featOut,     \* its energy, rms and zcr
    run,         \* one analyzeBreathing call, statement by statement
    fmap,        \* a FeatureMap object: features, history
    fmClock,     \* the last value Date.now() returned
    fmSnaps,     \* the objects snapshot() returned, in order
    fmOp         \* the FeatureMap method that ran last, with its result

bufVars == <<cb, delivered, cbOp, cbResult>>
pqVars == <<pq, pqCount, pqOp>>
clsVars == <<featureMap, clsPc, clsOut, clsPrev>>
noiseVars == <<noiseIn, noisePc, noiseOut>>
winVars == <<winIn, winPc, winOut>>
peakVars == <<peakIn, peakPc, peakOut>>
recVars == <<recIn, recPc, report>>
featVars == <<featIn, featPc, featOut>>
runVars == <<run>>
sigVars == <<noiseVars, winVars, peakVars, recVars, featVars, runVars>>
fmVars == <<fmap, fmClock, fmSnaps, fmOp>>
vars == <<bufVars, pqVars, clsVars, sigVars, fmVars>>

\* what the operations of one component leave alone
notBuf == <<pqVars, clsVars, sigVars, fmVars>>
notPQ == <<bufVars, clsVars, sigVars, fmVars>>
notCls == <<bufVars, pqVars, sigVars, fmVars>>
notFM == <<bufVars, pqVars, clsVars, sigVars>>
notNoise == <<bufVars, pqVars, clsVars, fmVars, winVars, peakVars, recVars, featVars, runVars>>
notWin == <<bufVars, pqVars, clsVars, fmVars, noiseVars, peakVars, recVars, featVars, runVars>>
notPeak == <<bufVars, pqVars, clsVars, fmVars, noiseVars, winVars, recVars, featVars, runVars>>
notRec == <<bufVars, pqVars, clsVars, fmVars, noiseVars, winVars, peakVars, featVars, runVars>>
notFeat == <<bufVars, pqVars, clsVars, fmVars, noiseVars, winVars, peakVars, recVars, runVars>>
notRun == <<bufVars, pqVars, clsVars, fmVars, noiseVars, winVars, peakVars, recVars, featVars>>

(***************************************************************************)
(* Bounds of the model.                                                    *)
(***************************************************************************)
MaxCap == 3          \* largest CircularBuffer capacity explored
MaxDeliver == 5      \* most values delivered to one buffer
MaxArr == 2          \* longest array handed to pushArray
MaxSampleVal == 2    \* buffer samples are drawn from 1..MaxSampleVal
MaxEnq == 5          \* most enqueue calls on one PriorityQueue
MaxPrio == 2         \* enqueue priorities are drawn from 0..MaxPrio
MaxFrames == 4       \* most frames in a feature map handed to the classifier
MaxNoiseLen == 3     \* longest signal handed to removeNoise
MaxWinSig == 5       \* longest signal handed to slidingWindowAnalysis
MaxWindow == 3       \* largest windowSize
MaxHop == 2          \* largest hopSize
MaxPeakSig == 4      \* longest of the short signals handed to detectPeaks
LongPrefix == 7      \* a long signal is this many free samples, then zeros
LongLen == 40        \* length of the long signals (and LongLen + 20)
MaxPat == 3          \* a recording repeats a pattern of at most this length
MaxAudio == 12       \* longest recording (besides the 8 s one) analysed
MaxFeatLen == 4      \* longest frame handed to the frame feature functions
MaxRunAudio == 4     \* longest recording analysed statement by statement
MaxRunRate == 5      \* largest sample rate of those recordings
MaxFMVal == 2        \* FeatureMap values are drawn from 1..MaxFMVal
MaxSnaps == 2        \* most snapshot() calls on one FeatureMap
MaxClock == 2        \* Date.now() returns a value in 0..MaxClock

Min(a, b) == IF a < b THEN a ELSE b
Max(a, b) == IF a > b THEN a ELSE b

\* The last n elements of s.
LastN(s, n) == SubSeq(s, Len(s) - n + 1, Len(s))

(***************************************************************************)
(* Numbers.  The program computes in IEEE doubles; the model computes in   *)
(* exact fixed point, each kind of quantity in its own unit:               *)
(*   amplitudes (samples, RMS) and zero-crossing rates   1/1000            *)
(*   breathing rates (breaths per minute)                1/100             *)
(*   energies and energy variances                       1/100000          *)
(*   severities and scores                               1/9000            *)
(* The score unit makes every severity and weighted contribution of the    *)
(* classifier an integer for features on these grids.  NaN is the one      *)
(* non-number the program produces (0/0): every comparison with it is      *)
(* false and every operation on it gives NaN.                              *)
(***************************************************************************)
NaN == 0 - 1000000000
ScoreOne == 9 * 1000

IsNaN(a) == a = NaN
Gt(a, b) == ~IsNaN(a) /\ ~IsNaN(b) /\ a > b
Lt(a, b) == ~IsNaN(a) /\ ~IsNaN(b) /\ a < b
Add(a, b) == IF IsNaN(a) \/ IsNaN(b) THEN NaN ELSE a + b
Sub(a, b) == IF IsNaN(a) \/ IsNaN(b) THEN NaN ELSE a - b
\* a * k, k a plain integer
Times(a, k) == IF IsNaN(a) THEN NaN ELSE a * k
\* a * (num / den), den > 0
Scale(a, num, den) == IF IsNaN(a) THEN NaN ELSE (a * num) \div den
\* Math.min, Math.max
MathMin(a, b) == IF IsNaN(a) \/ IsNaN(b) THEN NaN ELSE Min(a, b)
MathMax(a, b) == IF IsNaN(a) \/ IsNaN(b) THEN NaN ELSE Max(a, b)
\* Math.round of a score: the nearest integer, halves upwards
MathRound(x) == IF IsNaN(x) THEN NaN ELSE (x + ScoreOne \div 2) \div ScoreOne
\* a plain number n as a score
Score(n) == n * ScoreOne
\* a % n; the remainder by 0 is NaN
Mod(a, n) == IF IsNaN(a) \/ n = 0 THEN NaN ELSE a % n

(***************************************************************************)
(* CircularBuffer.  Samples are single-precision values (the callers hand  *)
(* Float32Array data), so the Float32Array store keeps them unchanged; a   *)
(* sample is named by an integer.  The backing store is indexed from 0.    *)
(***************************************************************************)
BufSamples == 1..MaxSampleVal

\* constructor(size): a zero-filled Float32Array, head = tail = count = 0
CircularBuffer(size) ==
    [buffer |-> [i \in 0..(size - 1) |-> 0],
     size |-> size, head |-> 0, tail |-> 0, count |-> 0]

\* buffer[index] = value on a Float32Array: a write outside the array's
\* length (or at NaN) is ignored
store(buffer, index, value) ==
    IF index \in DOMAIN buffer THEN [buffer EXCEPT ![index] = value] ELSE buffer

\* A push that overwrites the oldest slot but forgets to advance head.
pushNoEvict(b, value) ==
    [b EXCEPT !.buffer = store(b.buffer, b.tail, value),
              !.tail = Mod(Add(b.tail, 1), b.size),
              !.count = IF b.count < b.size THEN b.count + 1 ELSE b.count]

\* push(value)
push(b, value) ==
    [b EXCEPT !.buffer = store(b.buffer, b.tail, value),
              !.tail = Mod(Add(b.tail, 1), b.size),
              !.count = IF b.count < b.size THEN b.count + 1 ELSE b.count,
              !.head = IF b.count < b.size THEN b.head
                       ELSE Mod(Add(b.head, 1), b.size)]

\* pushArray(arr): for (i = 0; i < arr.length; i++) this.push(arr[i]).
\* pushFrom(b, arr, i) is the loop from index i (1-based) on.
RECURSIVE pushFrom(_, _, _)
pushFrom(b, arr, i) ==
    IF i > Len(arr) THEN b ELSE pushFrom(push(b, arr[i]), arr, i + 1)

pushArray(b, arr) == pushFrom(b, arr, 1)

\* A toArray that copies from slot 0 instead of from head.
toArrayFromZero(b) == [i \in 1..b.count |-> b.buffer[(i - 1) % b.size]]

\* toArray(): a new array of count elements, result[i] = buffer[(head+i) % size]
toArray(b) == [i \in 1..b.count |-> b.buffer[(b.head + (i - 1)) % b.size]]

\* A clear that resets count and leaves head and tail where they are.
clearCountOnly(b) == [b EXCEPT !.count = 0]

\* clear(): head = tail = count = 0, the backing store is kept
CircularBuffer_clear(b) == [b EXCEPT !.head = 0, !.tail = 0, !.count = 0]

\* A toArray that drains the buffer it copies.
stateAfterDrainingToArray(b) == CircularBuffer_clear(b)

\* the object after toArray(): the method assigns to no field
stateAfterToArray(b) == b

BufStart ==
    /\ \E size \in 1..MaxCap : cb = CircularBuffer(size)
    /\ delivered = <<>>
    /\ cbOp = "new"
    /\ cbResult = <<>>

\* new CircularBuffer(size) for any size the constructor accepts, 0 included
BufAnyStart ==
    /\ \E size \in 0..MaxCap : cb = CircularBuffer(size)
    /\ delivered = <<>>
    /\ cbOp = "new"
    /\ cbResult = <<>>

\* the buffer of a run that is about another component
BufIdle ==
    /\ cb = CircularBuffer(1)
    /\ delivered = <<>>
    /\ cbOp = "new"
    /\ cbResult = <<>>

Push ==
    /\ Len(delivered) < MaxDeliver
    /\ \E v \in BufSamples :
        /\ cb' = push(cb, v)
        /\ delivered' = Append(delivered, v)
    /\ cbOp' = "push"
    /\ UNCHANGED <<cbResult, notBuf>>

PushArray ==
    /\ \E n \in 0..MaxArr : \E arr \in [1..n -> BufSamples] :
        /\ Len(delivered) + n <= MaxDeliver
        /\ cb' = pushArray(cb, arr)
        /\ delivered' = delivered \o arr
    /\ cbOp' = "pushArray"
    /\ UNCHANGED <<cbResult, notBuf>>

ToArray ==
    /\ cbResult' = toArray(cb)
    /\ cb' = stateAfterToArray(cb)
    /\ cbOp' = "toArray"
    /\ UNCHANGED <<delivered, notBuf>>

\* delivered restarts: the values delivered since construction or clear()
Clear ==
    /\ cb' = CircularBuffer_clear(cb)
    /\ delivered' = <<>>
    /\ cbOp' = "clear"
    /\ UNCHANGED <<cbResult, notBuf>>


(***************************************************************************)
(* PriorityQueue.  items is the array, most severe first.  An element is   *)
(* a record; here it carries the number of the enqueue call that brought it. *)
(***************************************************************************)
PriorityQueue == [items |-> <<>>]

\* splice(i, 0, item) on a 1-based sequence: item becomes element i
Splice(s, i, item) == SubSeq(s, 1, i - 1) \o <<item>> \o SubSeq(s, i, Len(s))

\* An enqueue that also goes before an item of equal priority.
enqueueBeforeEqual(q, element, priority) ==
    LET item == [element |-> element, priority |-> priority]
        hits == {i \in 1..Len(q.items) : item.priority >= q.items[i].priority}
    IN  IF hits # {}
        THEN [q EXCEPT !.items =
                 Splice(q.items, CHOOSE i \in hits : \A j \in hits : i <= j, item)]
        ELSE [q EXCEPT !.items = Append(q.items, item)]

\* enqueue(element, priority): the loop stops at the first i with
\* item.priority > items[i].priority and splices there; otherwise push.
enqueue(q, element, priority) ==
    LET item == [element |-> element, priority |-> priority]
        hits == {i \in 1..Len(q.items) : item.priority > q.items[i].priority}
    IN  IF hits # {}
        THEN [q EXCEPT !.items =
                 Splice(q.items, CHOOSE i \in hits : \A j \in hits : i <= j, item)]
        ELSE [q EXCEPT !.items = Append(q.items, item)]

\* dequeue(): items.shift()
dequeue(q) == [q EXCEPT !.items = Tail(q.items)]

\* isEmpty()
isEmpty(q) == Len(q.items) = 0

\* A getAll that lists the least severe event first.
getAllReversed(q) ==
    [i \in 1..Len(q.items) |->
        [severity |-> q.items[Len(q.items) + 1 - i].priority]
            @@ q.items[Len(q.items) + 1 - i].element]

\* the queue after getAll(): map() builds a new array, items is not assigned
queueAfterGetAll(q) == q

\* getAll(): items.map(i => ({...i.element, severity: i.priority}))
getAll(q) ==
    [i \in 1..Len(q.items) |->
        [severity |-> q.items[i].priority] @@ q.items[i].element]

PQStart ==
    /\ pq = PriorityQueue
    /\ pqCount = 0
    /\ pqOp = [op |-> "new", priority |-> 0]

Enqueue ==
    /\ pqCount < MaxEnq
    /\ \E p \in 0..MaxPrio :
        /\ pq' = enqueue(pq, [id |-> pqCount + 1], p)
        /\ pqOp' = [op |-> "enqueue", priority |-> p]
    /\ pqCount' = pqCount + 1
    /\ UNCHANGED notPQ

Dequeue ==
    /\ ~isEmpty(pq)
    /\ pq' = dequeue(pq)
    /\ pqOp' = [op |-> "dequeue", priority |-> 0]
    /\ UNCHANGED <<pqCount, notPQ>>

(***************************************************************************)
(* classifyBreathing.  The thresholds, in the units above.                 *)
(***************************************************************************)
NORMAL_ZCR_MAX == 80
NORMAL_VARIANCE_MAX == 50
NORMAL_BREATHING_RATE_MIN == 1000
NORMAL_BREATHING_RATE_MAX == 1800
HIGH_AMPLITUDE_THRESHOLD == 60
MIN_SIGNAL_THRESHOLD == 8
MIN_ENERGY_THRESHOLD == 5

\* windowFeatures.filter((w, i) => i > 0 && w.energy > prev.energy * 3).length
energySpikes(windowFeatures) ==
    Cardinality({i \in 2..Len(windowFeatures) :
        Gt(windowFeatures[i].energy, Times(windowFeatures[i - 1].energy, 3))})

\* Check 1: zero crossing rate.  Each check maps the running state
\* [queue, abnormalityScore, isNormal] to the state after it.
checkZCR(fm, st) ==
    IF Gt(fm.avgZCR, NORMAL_ZCR_MAX)
    THEN LET severity ==
                 MathMin(Score(100),
                         (fm.avgZCR - NORMAL_ZCR_MAX)
                             * (Score(100) \div NORMAL_ZCR_MAX))
         IN  [queue |-> enqueue(st.queue,
                          [type |-> "wheezing",
                           description |-> "Wheezing pattern detected (high frequency)",
                           percentage |-> MathRound(MathMax(Score(35), severity))],
                          severity),
              abnormalityScore |-> st.abnormalityScore + Scale(severity, 4, 10),
              isNormal |-> FALSE]
    ELSE st

\* A variance check that triggers only above twice the threshold.
checkVarianceLenient(fm, st) ==
    IF Gt(fm.energyVariance, 2 * NORMAL_VARIANCE_MAX)
    THEN LET severity ==
                 MathMin(Score(100),
                         (fm.energyVariance - NORMAL_VARIANCE_MAX)
                             * (Score(80) \div NORMAL_VARIANCE_MAX))
         IN  [queue |-> enqueue(st.queue,
                          [type |-> "irregular",
                           description |-> "Irregular breathing rhythm detected",
                           percentage |-> MathRound(MathMax(Score(30), severity))],
                          severity),
              abnormalityScore |-> st.abnormalityScore + Scale(severity, 35, 100),
              isNormal |-> FALSE]
    ELSE st

\* Check 2: energy variance
checkVariance(fm, st) ==
    IF Gt(fm.energyVariance, NORMAL_VARIANCE_MAX)
    THEN LET severity ==
                 MathMin(Score(100),
                         (fm.energyVariance - NORMAL_VARIANCE_MAX)
                             * (Score(80) \div NORMAL_VARIANCE_MAX))
         IN  [queue |-> enqueue(st.queue,
                          [type |-> "irregular",
                           description |-> "Irregular breathing rhythm detected",
                           percentage |-> MathRound(MathMax(Score(30), severity))],
                          severity),
              abnormalityScore |-> st.abnormalityScore + Scale(severity, 35, 100),
              isNormal |-> FALSE]
    ELSE st

\* Check 3: breathing rate
checkRate(fm, st) ==
    IF \/ Lt(fm.breathingRate, NORMAL_BREATHING_RATE_MIN)
       \/ Gt(fm.breathingRate, NORMAL_BREATHING_RATE_MAX)
    THEN LET low == Lt(fm.breathingRate, NORMAL_BREATHING_RATE_MIN)
             severity ==
                 IF low
                 THEN (NORMAL_BREATHING_RATE_MIN - fm.breathingRate)
                          * (Score(70) \div NORMAL_BREATHING_RATE_MIN)
                 ELSE (fm.breathingRate - NORMAL_BREATHING_RATE_MAX)
                          * (Score(80) \div NORMAL_BREATHING_RATE_MAX)
             description ==
                 IF low THEN "Slow breathing rate (Bradypnea)"
                 ELSE "Rapid breathing rate (Tachypnea)"
         IN  [queue |-> enqueue(st.queue,
                          [type |-> "shortness",
                           description |-> description,
                           percentage |->
                               MathRound(MathMax(Score(25),
                                                 MathMin(Score(100), severity)))],
                          severity),
              abnormalityScore |-> st.abnormalityScore + Scale(severity, 3, 10),
              isNormal |-> FALSE]
    ELSE st

\* A signal-quality check that, like the other checks, clears isNormal.
checkSignalQualityFlips(fm, st) ==
    IF Lt(fm.avgRMS, MIN_SIGNAL_THRESHOLD) \/ Lt(fm.avgEnergy, MIN_ENERGY_THRESHOLD)
    THEN [queue |-> enqueue(st.queue,
                      [type |-> "noise",
                       description |-> "Poor signal quality / Environmental noise",
                       percentage |-> 35],
                      Score(35)),
          abnormalityScore |-> st.abnormalityScore + Score(15),
          isNormal |-> FALSE]
    ELSE st

\* Check 4: signal quality; isNormal is left as it is
checkSignalQuality(fm, st) ==
    IF Lt(fm.avgRMS, MIN_SIGNAL_THRESHOLD) \/ Lt(fm.avgEnergy, MIN_ENERGY_THRESHOLD)
    THEN [queue |-> enqueue(st.queue,
                      [type |-> "noise",
                       description |-> "Poor signal quality / Environmental noise",
                       percentage |-> 35],
                      Score(35)),
          abnormalityScore |-> st.abnormalityScore + Score(15),
          isNormal |-> st.isNormal]
    ELSE st

\* An energy-spike check that a single spike already triggers.
checkSpikesOnce(fm, st) ==
    IF Len(fm.windowFeatures) > 3 /\ energySpikes(fm.windowFeatures) > 0
    THEN LET severity ==
                 MathMin(Score(80), Score(energySpikes(fm.windowFeatures) * 20))
         IN  [queue |-> enqueue(st.queue,
                          [type |-> "irregular",
                           description |-> "Sudden energy spikes (cough/gasp pattern)",
                           percentage |-> MathRound(severity)],
                          severity),
              abnormalityScore |-> st.abnormalityScore + Scale(severity, 25, 100),
              isNormal |-> FALSE]
    ELSE st

\* Check 5: energy spikes
checkSpikes(fm, st) ==
    IF Len(fm.windowFeatures) > 3 /\ energySpikes(fm.windowFeatures) > 1
    THEN LET severity ==
                 MathMin(Score(80), Score(energySpikes(fm.windowFeatures) * 20))
         IN  [queue |-> enqueue(st.queue,
                          [type |-> "irregular",
                           description |-> "Sudden energy spikes (cough/gasp pattern)",
                           percentage |-> MathRound(severity)],
                          severity),
              abnormalityScore |-> st.abnormalityScore + Scale(severity, 25, 100),
              isNormal |-> FALSE]
    ELSE st

\* the final classification, from the state the five checks left
finalDecision(fm, st) ==
    LET stabilityScore ==
            MathMax(0, Sub(Score(100),
                           Times(fm.energyVariance, (15000 * ScoreOne) \div 100000)))
    IN  IF st.isNormal /\ st.abnormalityScore < Score(20)
        THEN LET isDeepBreathing ==
                     /\ Gt(fm.avgRMS, HIGH_AMPLITUDE_THRESHOLD)
                     /\ Lt(fm.breathingRate, 1400)
                 isSlowBreathing ==
                     /\ Lt(fm.avgRMS, HIGH_AMPLITUDE_THRESHOLD)
                     /\ Lt(fm.breathingRate, 1200)
             IN  [classification |->
                      [status |-> "normal",
                       breathingType |->
                           IF isDeepBreathing THEN "deep"
                           ELSE IF isSlowBreathing THEN "slow" ELSE "regular",
                       stabilityScore |-> MathRound(stabilityScore),
                       lungComfort |->
                           IF Gt(stabilityScore, Score(80)) THEN "Good"
                           ELSE IF Gt(stabilityScore, Score(60)) THEN "Moderate"
                           ELSE "Fair",
                       confidenceScore |->
                           MathRound(MathMax(Score(75),
                                             Score(100) - st.abnormalityScore))],
                  abnormalityQueue |-> st.queue,
                  abnormalityScore |-> st.abnormalityScore,
                  isNormal |-> st.isNormal]
        ELSE LET queue ==
                     IF isEmpty(st.queue) /\ st.abnormalityScore > 0
                     THEN enqueue(st.queue,
                            [type |-> "irregular",
                             description |-> "General breathing irregularity",
                             percentage |->
                                 MathRound(MathMin(Score(100), st.abnormalityScore))],
                            st.abnormalityScore)
                     ELSE st.queue
             IN  [classification |->
                      [status |-> "abnormal",
                       abnormalityConfidence |->
                           MathRound(MathMin(Score(100),
                               MathMax(Score(30), st.abnormalityScore))),
                       stabilityScore |-> MathRound(stabilityScore),
                       lungComfort |-> "Needs Attention",
                       confidenceScore |->
                           MathRound(MathMin(Score(95),
                                             st.abnormalityScore + Score(35)))],
                  abnormalityQueue |-> queue,
                  abnormalityScore |-> st.abnormalityScore,
                  isNormal |-> st.isNormal]

\* classifyBreathing(featureMap, abnormalityQueue): the five checks in the
\* order of the source, then the final classification.  The result carries
\* the returned record, the queue as the call leaves it, and the final
\* values of the locals abnormalityScore and isNormal.
classifyBreathing(fm, abnormalityQueue) ==
    LET st0 == [queue |-> abnormalityQueue, abnormalityScore |-> 0,
                isNormal |-> TRUE]
        st1 == checkZCR(fm, st0)
        st2 == checkVariance(fm, st1)
        st3 == checkRate(fm, st2)
        st4 == checkSignalQuality(fm, st3)
        st5 == checkSpikes(fm, st4)
    IN  finalDecision(fm, st5)

\* The feature maps explored.  analyzeBreathing is the only caller: with
\* no frame every mean is 0/0 = NaN and the rate is the default 12; with
\* frames each aggregate is a number, drawn here from a grid around its
\* thresholds, beside every sequence of up to MaxFrames frame energies.
ZCRGrid == {79, 80, 81, 200}
VarianceGrid == {49, 50, 51, 120}
RateGrid == {900, 1000, 1100, 1300, 1800, 6000}
RMSGrid == {7, 8, 60, 61}
EnergyGrid == {0, 4, 5}
FrameEnergies == {0, 1, 4}

FrameSeqs ==
    UNION {[1..n -> [energy : FrameEnergies]] : n \in 1..MaxFrames}

NoFramesMap ==
    [avgEnergy |-> NaN, avgRMS |-> NaN, avgZCR |-> NaN, energyVariance |-> NaN,
     breathingRate |-> 1200, windowFeatures |-> <<>>]

ClsStart ==
    /\ featureMap \in
           [avgEnergy : EnergyGrid, avgRMS : RMSGrid,
            avgZCR : ZCRGrid, energyVariance : VarianceGrid,
            breathingRate : RateGrid, windowFeatures : FrameSeqs]
           \cup {NoFramesMap}
    /\ clsPc = "ready"
    /\ clsOut = [classification |-> [status |-> "none"]]
    /\ clsPrev = [classification |-> [status |-> "none"]]

ClsIdle ==
    /\ featureMap = [avgEnergy |-> 0]
    /\ clsPc = "idle"
    /\ clsOut = [classification |-> [status |-> "none"]]
    /\ clsPrev = [classification |-> [status |-> "none"]]

\* classifyBreathing(featureMap, new PriorityQueue())
Classify ==
    /\ clsPc = "ready"
    /\ clsOut' = classifyBreathing(featureMap, PriorityQueue)
    /\ clsPc' = "done"
    /\ UNCHANGED <<featureMap, clsPrev, notCls>>

\* A caller that hands the classifier the queue its earlier run filled.
queueOfEarlierRun(left) == left

\* the queue a run of the classifier is given: analyzeBreathing constructs
\* a new PriorityQueue for each call, whatever an earlier call left
queueForRun(left) == PriorityQueue

\* the classifier once more on the same feature map contents
Reclassify ==
    /\ clsPc = "done"
    /\ clsPrev' = clsOut
    /\ clsOut' = classifyBreathing(featureMap, queueForRun(clsOut.abnormalityQueue))
    /\ clsPc' = "again"
    /\ UNCHANGED <<featureMap, notCls>>

(***************************************************************************)
(* Signal functions.  A signal is a sequence of samples; the source's      *)
(* index i is position i + 1 here.                                         *)
(***************************************************************************)
Abs(x) == IF x < 0 THEN 0 - x ELSE x

\* the sum of s[lo..hi]; the source adds from left to right, and integer
\* addition gives the same total in any grouping
RECURSIVE SumRange(_, _, _)
SumRange(s, lo, hi) ==
    IF lo > hi THEN 0
    ELSE IF lo = hi THEN s[lo]
    ELSE LET mid == (lo + hi) \div 2
         IN  SumRange(s, lo, mid) + SumRange(s, mid + 1, hi)

Sum(s) == SumRange(s, 1, Len(s))

\* Math.sqrt on a non-negative integer, truncated: the r in lo..hi with
\* r * r <= n < (r + 1) * (r + 1), by bisection
RECURSIVE SqrtIn(_, _, _)
SqrtIn(n, lo, hi) ==
    IF lo = hi THEN lo
    ELSE LET mid == (lo + hi + 1) \div 2
         IN  IF mid * mid <= n THEN SqrtIn(n, mid, hi) ELSE SqrtIn(n, lo, mid - 1)

ISqrt(n) == SqrtIn(n, 0, Min(n, 40000))

\* sum / n as the program's division gives it: 0/0 is NaN
Mean(s) ==
    IF Len(s) = 0 \/ (\E i \in 1..Len(s) : IsNaN(s[i])) THEN NaN
    ELSE Sum(s) \div Len(s)

\* the array with elements f[1], ..., f[n], as a sequence value
Array(f, n) == SubSeq(f, 1, n)

\* A noise gate that lets a sample equal to the threshold through.
removeNoiseKeepEqual(signal, noiseThreshold) ==
    Array([i \in 1..Len(signal) |->
              IF Abs(signal[i]) >= noiseThreshold THEN signal[i] ELSE 0],
          Len(signal))

\* removeNoise(signal, noiseThreshold = 0.02)
removeNoise(signal, noiseThreshold) ==
    Array([i \in 1..Len(signal) |->
              IF Abs(signal[i]) > noiseThreshold THEN signal[i] ELSE 0],
          Len(signal))

DEFAULT_NOISE_THRESHOLD == 20

\* calculateEnergy(signal): mean of the squared samples (0/0 = NaN on an
\* empty signal); squares of 1/1000 amplitudes, in units of 1/100000
calculateEnergy(signal) ==
    IF Len(signal) = 0 THEN NaN
    ELSE Sum(Array([i \in 1..Len(signal) |-> signal[i] * signal[i]],
                   Len(signal)))
             \div (10 * Len(signal))

\* calculateRMS(signal) = Math.sqrt(calculateEnergy(signal))
calculateRMS(signal) ==
    LET energy == calculateEnergy(signal)
    IN  IF IsNaN(energy) THEN NaN ELSE ISqrt(energy * 10)

\* A zero crossing rate that counts a sample of 0 as negative.
calculateZCRZeroNegative(signal) ==
    LET crossings ==
            Cardinality({i \in 2..Len(signal) :
                \/ signal[i] > 0 /\ signal[i - 1] <= 0
                \/ signal[i] <= 0 /\ signal[i - 1] > 0})
    IN  IF Len(signal) = 1 THEN NaN
        ELSE IF Len(signal) = 0 THEN 0
        ELSE (crossings * 1000) \div (Len(signal) - 1)

\* calculateZCR(signal): crossings / (length - 1); 0/0 = NaN for one
\* sample, 0/-1 = -0 for none
calculateZCR(signal) ==
    LET crossings ==
            Cardinality({i \in 2..Len(signal) :
                \/ signal[i] >= 0 /\ signal[i - 1] < 0
                \/ signal[i] < 0 /\ signal[i - 1] >= 0})
    IN  IF Len(signal) = 1 THEN NaN
        ELSE IF Len(signal) = 0 THEN 0
        ELSE (crossings * 1000) \div (Len(signal) - 1)

\* one frame of slidingWindowAnalysis.  The spectrum fields (fftMagnitudes,
\* dominantFreq) and timestamp are left out: they need sines and cosines,
\* and nothing modelled here reads them.
frameAt(signal, start, windowSize) ==
    LET window == SubSeq(signal, start + 1, start + windowSize)
    IN  [startSample |-> start,
         energy |-> calculateEnergy(window),
         rms |-> calculateRMS(window),
         zcr |-> calculateZCR(window)]

\* the loop of slidingWindowAnalysis from start on; hopSize >= 1
RECURSIVE windowsFrom(_, _, _, _)
windowsFrom(signal, start, windowSize, hopSize) ==
    IF start < Len(signal) - windowSize
    THEN <<frameAt(signal, start, windowSize)>>
             \o windowsFrom(signal, start + hopSize, windowSize, hopSize)
    ELSE <<>>

\* slidingWindowAnalysis(signal, windowSize, hopSize, sampleRate)
slidingWindowAnalysis(signal, windowSize, hopSize, sampleRate) ==
    windowsFrom(signal, 0, windowSize, hopSize)

\* A scan that also takes the last sample of a plateau as a peak.
RECURSIVE peaksFromPlateau(_, _, _, _, _)
peaksFromPlateau(signal, threshold, minDistance, i, peaks) ==
    IF i > Len(signal) - 1 THEN peaks
    ELSE IF /\ ~Lt(signal[i], signal[i - 1])
            /\ Gt(signal[i], signal[i + 1])
            /\ Gt(signal[i], threshold)
            /\ \/ Len(peaks) = 0
               \/ (i - 1) - peaks[Len(peaks)].index > minDistance
         THEN peaksFromPlateau(signal, threshold, minDistance, i + 1,
                               Append(peaks, [index |-> i - 1, value |-> signal[i]]))
         ELSE peaksFromPlateau(signal, threshold, minDistance, i + 1, peaks)

\* the loop of detectPeaks from position i on (source index i - 1), with
\* the peaks accepted so far
RECURSIVE peaksFrom(_, _, _, _, _)
peaksFrom(signal, threshold, minDistance, i, peaks) ==
    IF i > Len(signal) - 1 THEN peaks
    ELSE IF /\ Gt(signal[i], signal[i - 1])
            /\ Gt(signal[i], signal[i + 1])
            /\ Gt(signal[i], threshold)
            /\ \/ Len(peaks) = 0
               \/ (i - 1) - peaks[Len(peaks)].index > minDistance
         THEN peaksFrom(signal, threshold, minDistance, i + 1,
                        Append(peaks, [index |-> i - 1, value |-> signal[i]]))
         ELSE peaksFrom(signal, threshold, minDistance, i + 1, peaks)

\* A detector that accepts a candidate exactly minDistance after the last peak.
detectPeaksAtDistance(signal, threshold) ==
    peaksFrom(signal, threshold, Len(signal) \div 20 - 1, 2, <<>>)

\* A detector whose scan starts one sample late.
detectPeaksLateStart(signal, threshold) ==
    peaksFrom(signal, threshold, Len(signal) \div 20, 3, <<>>)

\* detectPeaks(signal, threshold)
detectPeaks(signal, threshold) ==
    peaksFrom(signal, threshold, Len(signal) \div 20, 2, <<>>)

\* A rate that is already computed from a single peak.
breathingRateFromOnePeak(peakCount, audioLength, sampleRate) ==
    IF peakCount > 0
    THEN (peakCount * 60 * 100 * sampleRate) \div audioLength
    ELSE 1200

\* breathingRate: (peaks.length / (audioData.length / sampleRate)) * 60 when
\* peaks.length > 1, else the default 12; in units of 1/100
breathingRateOf(peakCount, audioLength, sampleRate) ==
    IF peakCount > 1
    THEN (peakCount * 60 * 100 * sampleRate) \div audioLength
    ELSE 1200

\* analyzeBreathing from its step 3 on: the statistics of the frames, the
\* peaks, the rate, the classification and the report
analyzeFrames(audioData, sampleRate, windowFeatures) ==
    LET n == Len(windowFeatures)
        avgEnergy == Mean([k \in 1..n |-> windowFeatures[k].energy])
        avgRMS == Mean([k \in 1..n |-> windowFeatures[k].rms])
        avgZCR == Mean([k \in 1..n |-> windowFeatures[k].zcr])
        energyVariance ==
            IF IsNaN(avgEnergy) THEN NaN
            ELSE Sum([k \in 1..n |->
                        (windowFeatures[k].energy - avgEnergy)
                            * (windowFeatures[k].energy - avgEnergy)])
                     \div (n * 100000)
        envelope == [k \in 1..n |-> windowFeatures[k].rms]
        peaks == detectPeaks(envelope, Scale(avgRMS, 1, 2))
        breathingRate == breathingRateOf(Len(peaks), Len(audioData), sampleRate)
        fm == [avgEnergy |-> avgEnergy, avgRMS |-> avgRMS, avgZCR |-> avgZCR,
               energyVariance |-> energyVariance,
               breathingRate |-> breathingRate,
               peakCount |-> Len(peaks), windowFeatures |-> windowFeatures]
        classified == classifyBreathing(fm, PriorityQueue)
    IN  [features |-> fm,
         classification |-> classified.classification,
         abnormalities |-> getAll(classified.abnormalityQueue),
         windowFeatures |-> windowFeatures,
         peaks |-> peaks]

\* analyzeBreathing(audioData, sampleRate)
analyzeBreathing(audioData, sampleRate) ==
    LET cleanedSignal == removeNoise(audioData, DEFAULT_NOISE_THRESHOLD)
        windowSize == sampleRate \div 2
        hopSize == windowSize \div 2
    IN  analyzeFrames(audioData, sampleRate,
            slidingWindowAnalysis(cleanedSignal, windowSize, hopSize, sampleRate))

\* The recording session of the capture layer: 8 seconds at 16 kHz.
SAMPLE_RATE == 16000
RECORD_DURATION == 8

\* A recording is named by a pattern and a length: sample i is
\* pattern[i mod Len(pattern)].
Expand(rec) ==
    Array([i \in 1..rec.length |-> rec.pattern[((i - 1) % Len(rec.pattern)) + 1]],
          rec.length)

SilentRecording ==
    [pattern |-> <<0>>, length |-> SAMPLE_RATE * RECORD_DURATION,
     sampleRate |-> SAMPLE_RATE]

NoiseSamples == {0 - 30, 0 - 20, 0 - 10, 0, 10, 20, 30}
NoiseThresholds == {10, 20}
WinSamples == {0 - 30, 0, 30}
PeakSamples == 0..3
LongSamples == 0..2
PeakThresholds == {0, 1}
AudioSamples == {0 - 30, 0, 10, 30, 200}
SampleRates == {4, 8}

SeqsUpTo(S, n) == UNION {[1..k -> S] : k \in 0..n}

NoiseStart ==
    /\ noiseIn \in [signal : SeqsUpTo(NoiseSamples, MaxNoiseLen),
                    noiseThreshold : NoiseThresholds]
    /\ noisePc = "ready"
    /\ noiseOut = <<>>

NoiseIdle ==
    /\ noiseIn = [signal |-> <<>>, noiseThreshold |-> DEFAULT_NOISE_THRESHOLD]
    /\ noisePc = "idle"
    /\ noiseOut = <<>>

RemoveNoise ==
    /\ noisePc = "ready"
    /\ noiseOut' = removeNoise(noiseIn.signal, noiseIn.noiseThreshold)
    /\ noisePc' = "done"
    /\ UNCHANGED <<noiseIn, notNoise>>

WinStart ==
    /\ winIn \in [signal : SeqsUpTo(WinSamples, MaxWinSig),
                  windowSize : 1..MaxWindow, hopSize : 1..MaxHop,
                  sampleRate : {8}]
    /\ winPc = "ready"
    /\ winOut = <<>>

WinIdle ==
    /\ winIn = [signal |-> <<>>, windowSize |-> 1, hopSize |-> 1, sampleRate |-> 8]
    /\ winPc = "idle"
    /\ winOut = <<>>

SlidingWindow ==
    /\ winPc = "ready"
    /\ winOut' = slidingWindowAnalysis(winIn.signal, winIn.windowSize,
                                       winIn.hopSize, winIn.sampleRate)
    /\ winPc' = "done"
    /\ UNCHANGED <<winIn, notWin>>

\* a long signal: LongPrefix free samples, then zeros up to length n
LongSignals(n) ==
    {[i \in 1..n |-> IF i <= LongPrefix THEN pre[i] ELSE 0] :
        pre \in [1..LongPrefix -> LongSamples]}

PeakStart ==
    /\ peakIn \in [signal : SeqsUpTo(PeakSamples, MaxPeakSig)
                              \cup LongSignals(LongLen)
                              \cup LongSignals(LongLen + 20),
                   threshold : PeakThresholds]
    /\ peakPc = "ready"
    /\ peakOut = <<>>

PeakIdle ==
    /\ peakIn = [signal |-> <<>>, threshold |-> 0]
    /\ peakPc = "idle"
    /\ peakOut = <<>>

DetectPeaks ==
    /\ peakPc = "ready"
    /\ peakOut' = detectPeaks(peakIn.signal, peakIn.threshold)
    /\ peakPc' = "done"
    /\ UNCHANGED <<peakIn, notPeak>>

RecStart ==
    /\ recIn \in [pattern : SeqsUpTo(AudioSamples, MaxPat) \ {<<>>},
                  length : 0..MaxAudio, sampleRate : SampleRates]
                 \cup {SilentRecording}
    /\ recPc = "ready"
    /\ report = [classification |-> [status |-> "none"]]

RecIdle ==
    /\ recIn = [pattern |-> <<0>>, length |-> 0, sampleRate |-> SAMPLE_RATE]
    /\ recPc = "idle"
    /\ report = [classification |-> [status |-> "none"]]

\* pq is the call's abnormalityQueue as the call leaves it: filled by
\* classifyBreathing from the feature map, then listed by getAll()
AnalyzeBreathing ==
    /\ recPc = "ready"
    /\ report' = analyzeBreathing(Expand(recIn), recIn.sampleRate)
    /\ pq' = queueAfterGetAll(
                 classifyBreathing(report'.features, PriorityQueue).abnormalityQueue)
    /\ recPc' = "done"
    /\ UNCHANGED <<recIn, pqCount, pqOp, bufVars, clsVars, noiseVars, winVars,
                   peakVars, featVars, runVars, fmVars>>

\* One analyzeBreathing call, statement by statement.  run.pc is the
\* position in the call: "call" before it, "loop" at the loop test of
\* slidingWindowAnalysis, "stats" after the loop, "done" at the return.
\* The windows array is kept up to MaxRunAudio frames, more than a loop
\* that advances can produce on the recordings explored; beyond that only
\* the parity of windows.length is kept, which every push changes.
RunSamples == {0, 30, 200}
RunRates == 1..MaxRunRate

RunStart ==
    run \in [pc : {"call"},
             rec : [pattern : SeqsUpTo(RunSamples, MaxPat) \ {<<>>},
                    length : 0..MaxRunAudio, sampleRate : RunRates]]

RunIdle == run = [pc |-> "idle"]

\* steps 1 and 2 up to the first loop test
RunEnter ==
    /\ run.pc = "call"
    /\ run' = [pc |-> "loop", rec |-> run.rec,
               cleanedSignal |-> removeNoise(Expand(run.rec), DEFAULT_NOISE_THRESHOLD),
               windowSize |-> run.rec.sampleRate \div 2,
               hopSize |-> (run.rec.sampleRate \div 2) \div 2,
               start |-> 0, windows |-> <<>>, parity |-> 0]
    /\ UNCHANGED notRun

\* one iteration: start < signal.length - windowSize, push a frame,
\* start += hopSize
RunFrame ==
    /\ run.pc = "loop"
    /\ run.start < Len(run.cleanedSignal) - run.windowSize
    /\ run' = [run EXCEPT
                 !.windows =
                     IF Len(run.windows) < MaxRunAudio
                     THEN Append(run.windows,
                                 frameAt(run.cleanedSignal, run.start, run.windowSize))
                     ELSE run.windows,
                 !.parity = (run.parity + 1) % 2,
                 !.start = run.start + run.hopSize]
    /\ UNCHANGED notRun

\* the loop test fails: return windows
RunLoopExit ==
    /\ run.pc = "loop"
    /\ ~(run.start < Len(run.cleanedSignal) - run.windowSize)
    /\ run' = [run EXCEPT !.pc = "stats"]
    /\ UNCHANGED notRun

\* steps 3 and 4 and the return
RunFinish ==
    /\ run.pc = "stats"
    /\ run' = [pc |-> "done", rec |-> run.rec,
               report |-> analyzeFrames(Expand(run.rec), run.rec.sampleRate,
                                        run.windows)]
    /\ UNCHANGED notRun

\* The frame feature functions on one frame, as the loop body of
\* slidingWindowAnalysis calls them.  Samples are -1, 0 and +1.
FeatSamples == {0 - 1000, 0, 1000}

FeatStart ==
    /\ featIn \in SeqsUpTo(FeatSamples, MaxFeatLen)
    /\ featPc = "ready"
    /\ featOut = [energy |-> 0, rms |-> 0, zcr |-> 0]

FeatIdle ==
    /\ featIn = <<>>
    /\ featPc = "idle"
    /\ featOut = [energy |-> 0, rms |-> 0, zcr |-> 0]

FrameFeatures ==
    /\ featPc = "ready"
    /\ featOut' = [energy |-> calculateEnergy(featIn),
                   rms |-> calculateRMS(featIn),
                   zcr |-> calculateZCR(featIn)]
    /\ featPc' = "done"
    /\ UNCHANGED <<featIn, notFeat>>

(***************************************************************************)
(* FeatureMap.  features is the Map, over the keys used here; the value 0  *)
(* stands for a key that is not in the Map (get gives undefined, snapshot  *)
(* copies nothing for it).  A history entry is the snapshot's keys plus    *)
(* timestamp.                                                              *)
(***************************************************************************)
FMKeys == {"avgEnergy", "breathingRate"}
FMValues == 1..MaxFMVal

\* constructor(): features = new Map(), history = []
FeatureMap == [features |-> [k \in FMKeys |-> 0], history |-> <<>>]

\* A set that also writes the key into the entries of the history, as if
\* the history held the live map.
setThroughHistory(fm, key, value) ==
    [features |-> [fm.features EXCEPT ![key] = value],
     history |-> [i \in 1..Len(fm.history) |->
                     [fm.history[i] EXCEPT ![key] = value]]]

\* set(key, value)
FeatureMap_set(fm, key, value) ==
    [fm EXCEPT !.features = [fm.features EXCEPT ![key] = value]]

\* get(key)
FeatureMap_get(fm, key) == fm.features[key]

\* the object snapshot() builds and returns: a copy of the Map's entries
snapOf(fm) == [k \in FMKeys |-> fm.features[k]]

\* snapshot(): history.push({...snap, timestamp: Date.now()})
FeatureMap_snapshot(fm, now) ==
    [fm EXCEPT !.history =
        Append(fm.history,
               [k \in FMKeys \cup {"timestamp"} |->
                   IF k = "timestamp" THEN now ELSE snapOf(fm)[k]])]

\* getHistory()
FeatureMap_getHistory(fm) == fm.history

\* clear(): features.clear(), history = []
FeatureMap_clear(fm) == [features |-> [k \in FMKeys |-> 0], history |-> <<>>]

FMStart ==
    /\ fmap = FeatureMap
    /\ fmClock = 0
    /\ fmSnaps = <<>>
    /\ fmOp = [op |-> "new", result |-> 0]

FMIdle == FMStart

FMSet ==
    /\ \E key \in FMKeys : \E value \in FMValues :
           fmap' = FeatureMap_set(fmap, key, value)
    /\ fmOp' = [op |-> "set", result |-> 0]
    /\ UNCHANGED <<fmClock, fmSnaps, notFM>>

FMGet ==
    /\ \E key \in FMKeys :
           fmOp' = [op |-> "get", result |-> FeatureMap_get(fmap, key)]
    /\ UNCHANGED <<fmap, fmClock, fmSnaps, notFM>>

FMSnapshot ==
    /\ Len(fmSnaps) < MaxSnaps
    /\ \E now \in fmClock..MaxClock :
        /\ fmap' = FeatureMap_snapshot(fmap, now)
        /\ fmClock' = now
    /\ fmSnaps' = Append(fmSnaps, snapOf(fmap))
    /\ fmOp' = [op |-> "snapshot", result |-> snapOf(fmap)]
    /\ UNCHANGED notFM

FMGetHistory ==
    /\ fmOp' = [op |-> "getHistory", result |-> FeatureMap_getHistory(fmap)]
    /\ UNCHANGED <<fmap, fmClock, fmSnaps, notFM>>

FMClear ==
    /\ fmap' = FeatureMap_clear(fmap)
    /\ fmOp' = [op |-> "clear", result |-> 0]
    /\ UNCHANGED <<fmClock, fmSnaps, notFM>>

SigIdle ==
    /\ NoiseIdle /\ WinIdle /\ PeakIdle /\ RecIdle /\ FeatIdle /\ RunIdle
    /\ FMIdle

(***************************************************************************)
(* The specifications, one per component.                                  *)
(***************************************************************************)
BufInit == BufStart /\ PQStart /\ ClsIdle /\ SigIdle
BufNext == Push \/ PushArray \/ ToArray \/ Clear
SpecBuf == BufInit /\ [][BufNext]_vars

BufAnyInit == BufAnyStart /\ PQStart /\ ClsIdle /\ SigIdle
SpecBufAny == BufAnyInit /\ [][BufNext]_vars

PQInit == PQStart /\ BufIdle /\ ClsIdle /\ SigIdle
PQNext == Enqueue \/ Dequeue
SpecPQ == PQInit /\ [][PQNext]_vars

ClsInit == ClsStart /\ BufIdle /\ PQStart /\ SigIdle
ClsNext == Classify
SpecClassify == ClsInit /\ [][ClsNext]_vars

ReclsNext == Classify \/ Reclassify
SpecReclassify == ClsInit /\ [][ReclsNext]_vars

OtherIdle == BufIdle /\ PQStart /\ ClsIdle /\ FeatIdle /\ RunIdle /\ FMIdle

NoiseInit == NoiseStart /\ WinIdle /\ PeakIdle /\ RecIdle /\ OtherIdle
NoiseNext == RemoveNoise
SpecNoise == NoiseInit /\ [][NoiseNext]_vars

WinInit == WinStart /\ NoiseIdle /\ PeakIdle /\ RecIdle /\ OtherIdle
WinNext == SlidingWindow
SpecWindow == WinInit /\ [][WinNext]_vars

PeakInit == PeakStart /\ NoiseIdle /\ WinIdle /\ RecIdle /\ OtherIdle
PeakNext == DetectPeaks
SpecPeaks == PeakInit /\ [][PeakNext]_vars

RecInit == RecStart /\ NoiseIdle /\ WinIdle /\ PeakIdle /\ OtherIdle
RecNext == AnalyzeBreathing
SpecAnalyze == RecInit /\ [][RecNext]_vars

FeatInit ==
    /\ FeatStart /\ NoiseIdle /\ WinIdle /\ PeakIdle /\ RecIdle /\ RunIdle
    /\ BufIdle /\ PQStart /\ ClsIdle /\ FMIdle
FeatNext == FrameFeatures
SpecFeatures == FeatInit /\ [][FeatNext]_vars

FMInit ==
    /\ FMStart /\ NoiseIdle /\ WinIdle /\ PeakIdle /\ RecIdle /\ FeatIdle
    /\ RunIdle /\ BufIdle /\ PQStart /\ ClsIdle
FMNext == FMSet \/ FMGet \/ FMSnapshot \/ FMGetHistory \/ FMClear
SpecFeatureMap == FMInit /\ [][FMNext]_vars

\* A call that has started keeps executing: weak fairness of its steps.
RunInit ==
    /\ RunStart /\ NoiseIdle /\ WinIdle /\ PeakIdle /\ RecIdle /\ FeatIdle
    /\ BufIdle /\ PQStart /\ ClsIdle /\ FMIdle
RunNext == RunEnter \/ RunFrame \/ RunLoopExit \/ RunFinish
SpecRun == RunInit /\ [][RunNext]_vars /\ WF_vars(RunNext)

(***************************************************************************)
(* C1: after any sequence of push/pushArray calls delivering n values to   *)
(* a buffer of capacity C >= 1, toArray() has length min(n, C) and is the  *)
(* last min(n, C) delivered values, oldest first; pushArray(arr) delivers  *)
(* arr[0], arr[1], ... exactly as that many push calls would.              *)
(***************************************************************************)
C1_LastDelivered ==
    LET n == Len(delivered)
        k == Min(n, cb.size)
    IN  /\ Len(toArray(cb)) = k
        /\ toArray(cb) = LastN(delivered, k)
        /\ cbOp = "toArray" => cbResult = LastN(delivered, k)

\* a pushArray has just wrapped the buffer around: more delivered than fits
C1_Witness ==
    /\ cbOp = "pushArray"
    /\ Len(delivered) > cb.size
    /\ cb.size >= 2
    /\ cb.head # 0

(***************************************************************************)
(* C2: after any sequence of enqueue calls on an initially empty queue the *)
(* items are in non-increasing priority order, two items of equal priority *)
(* are in the order they were enqueued, and the item just enqueued stands  *)
(* immediately before the first item of strictly lower priority, or last.  *)
(***************************************************************************)
C2_SortedStable ==
    LET it == pq.items
    IN  /\ \A i, j \in 1..Len(it) :
            i < j => /\ it[i].priority >= it[j].priority
                     /\ (it[i].priority = it[j].priority
                            => it[i].element.id < it[j].element.id)
        /\ pqOp.op = "enqueue" =>
            \E k \in 1..Len(it) :
                /\ it[k] = [element |-> [id |-> pqCount], priority |-> pqOp.priority]
                /\ \A i \in 1..(k - 1) : it[i].priority >= pqOp.priority
                /\ k < Len(it) => it[k + 1].priority < pqOp.priority

\* an item has just been spliced into the middle, next to one of its priority
C2_Witness ==
    LET it == pq.items
    IN  /\ pqOp.op = "enqueue"
        /\ \E k \in 2..(Len(it) - 1) :
            /\ it[k].element.id = pqCount
            /\ it[k - 1].priority = it[k].priority
            /\ it[k + 1].priority < it[k].priority

(***************************************************************************)
(* The five checks' trigger conditions, stated on the feature map itself.  *)
(***************************************************************************)
ZCRTriggered == featureMap.avgZCR # NaN /\ featureMap.avgZCR > 80
VarianceTriggered ==
    featureMap.energyVariance # NaN /\ featureMap.energyVariance > 50
RateTriggered == featureMap.breathingRate < 1000 \/ featureMap.breathingRate > 1800
QualityTriggered ==
    \/ featureMap.avgRMS # NaN /\ featureMap.avgRMS < 8
    \/ featureMap.avgEnergy # NaN /\ featureMap.avgEnergy < 5
SpikeTriggered ==
    LET w == featureMap.windowFeatures
    IN  /\ Len(w) >= 4
        /\ \E i, j \in 2..Len(w) :
            /\ i # j
            /\ w[i].energy > 3 * w[i - 1].energy
            /\ w[j].energy > 3 * w[j - 1].energy

\* the events of one type in the queue the classifier left
EventsOfType(t) ==
    {i \in 1..Len(clsOut.abnormalityQueue.items) :
        clsOut.abnormalityQueue.items[i].element.type = t}

(***************************************************************************)
(* C3: classifyBreathing returns status 'normal' if and only if none of    *)
(* the ZCR, variance, breathing-rate and energy-spike checks triggered and *)
(* abnormalityScore < 20; in every other case it returns 'abnormal'.       *)
(***************************************************************************)
C3_NormalIff ==
    clsPc = "done" =>
        LET quiet == /\ ~ZCRTriggered /\ ~VarianceTriggered
                     /\ ~RateTriggered /\ ~SpikeTriggered
                     /\ clsOut.abnormalityScore < 20 * 9000
        IN  /\ clsOut.classification.status \in {"normal", "abnormal"}
            /\ clsOut.classification.status = "normal" <=> quiet

\* abnormal on a score far below 20: one check alone decided it
C3_Witness ==
    /\ clsPc = "done"
    /\ clsOut.classification.status = "abnormal"
    /\ clsOut.abnormalityScore < 9000
    /\ ZCRTriggered

(***************************************************************************)
(* C5: the signal-quality check (avgRMS < 0.008 or avgEnergy < 0.00005)    *)
(* enqueues one 'noise' event of severity 35 and percentage 35, adds       *)
(* exactly 15 to abnormalityScore and leaves isNormal alone: the score and *)
(* isNormal are those of the same features with a good signal, plus 15;    *)
(* when no other check triggers the status is 'normal'.                    *)
(***************************************************************************)
C5_QualityCheck ==
    clsPc = "done" =>
        LET good == classifyBreathing(
                        [featureMap EXCEPT !.avgRMS = 8, !.avgEnergy = 5],
                        PriorityQueue)
            items == clsOut.abnormalityQueue.items
        IN  IF QualityTriggered
            THEN /\ Cardinality(EventsOfType("noise")) = 1
                 /\ \A i \in EventsOfType("noise") :
                        /\ items[i].priority = 35 * 9000
                        /\ items[i].element.percentage = 35
                 /\ clsOut.abnormalityScore = good.abnormalityScore + 15 * 9000
                 /\ clsOut.isNormal = good.isNormal
                 /\ (~ZCRTriggered /\ ~VarianceTriggered /\ ~RateTriggered
                       /\ ~SpikeTriggered)
                        => /\ clsOut.classification.status = "normal"
                           /\ clsOut.abnormalityScore = 15 * 9000
                           /\ Len(items) = 1
            ELSE EventsOfType("noise") = {}

\* the signal-quality check was the only one to trigger
C5_Witness ==
    /\ clsPc = "done"
    /\ QualityTriggered
    /\ ~ZCRTriggered /\ ~VarianceTriggered /\ ~RateTriggered /\ ~SpikeTriggered
    /\ clsOut.classification.status = "normal"
    /\ Len(clsOut.abnormalityQueue.items) = 1

(***************************************************************************)
(* C6: breathing rate inside [10,18], avgZCR < 0.08, energyVariance <      *)
(* 0.0005 and avgRMS >= 0.008.                                             *)
(***************************************************************************)
C6_Pre ==
    /\ clsPc = "done"
    /\ featureMap.breathingRate >= 1000 /\ featureMap.breathingRate <= 1800
    /\ featureMap.avgZCR # NaN /\ featureMap.avgZCR < 80
    /\ featureMap.energyVariance # NaN /\ featureMap.energyVariance < 50
    /\ featureMap.avgRMS # NaN /\ featureMap.avgRMS >= 8

\* C6 as stated: for such a feature map, whatever the per-frame energy
\* sequence, the status is 'normal'.
C6_AnyFramesNormal ==
    C6_Pre => clsOut.classification.status = "normal"

\* C6 amended: for such a feature map whose frame energies do not trigger
\* the energy-spike check (at most three frames, or at most one frame with
\* more than three times the energy of the frame before it), the status is
\* 'normal' and breathingType is one of deep, slow and regular, deep
\* exactly when avgRMS > 0.06 and rate < 14.
C6_NoSpikesNormal ==
    (C6_Pre /\ ~SpikeTriggered) =>
        /\ clsOut.classification.status = "normal"
        /\ clsOut.classification.breathingType \in {"deep", "slow", "regular"}
        /\ clsOut.classification.breathingType = "deep"
               <=> (featureMap.avgRMS > 60 /\ featureMap.breathingRate < 1400)

\* a normal result on four frames, one of them a spike
C6_Witness ==
    /\ C6_Pre
    /\ ~SpikeTriggered
    /\ Len(featureMap.windowFeatures) = 4
    /\ \E i \in 2..4 : featureMap.windowFeatures[i].energy
                          > 3 * featureMap.windowFeatures[i - 1].energy
    /\ clsOut.classification.status = "normal"
    /\ clsOut.classification.breathingType = "deep"

(***************************************************************************)
(* C4: analyzeBreathing on an all-zero 8-second recording at sampleRate    *)
(* 16000 yields avgEnergy = 0, avgRMS = 0 and breathingRate = 12 (no       *)
(* peaks); the signal-quality check triggers.                              *)
(***************************************************************************)
C4_SilentFeatures ==
    /\ report.features.avgEnergy = 0
    /\ report.features.avgRMS = 0
    /\ report.features.breathingRate = 1200
    /\ report.peaks = <<>>
    /\ \E i \in 1..Len(report.abnormalities) :
           report.abnormalities[i].type = "noise"

\* C4 as stated: ... and the classification status is 'abnormal'.
C4_SilentAbnormal ==
    (recPc = "done" /\ recIn = SilentRecording) =>
        /\ C4_SilentFeatures
        /\ report.classification.status = "abnormal"

\* C4 amended: ... and the classification status is 'normal': the noise
\* event is the only abnormality reported, and the signal-quality check
\* alone does not make the status abnormal.
C4_SilentNormal ==
    (recPc = "done" /\ recIn = SilentRecording) =>
        /\ C4_SilentFeatures
        /\ Len(report.abnormalities) = 1
        /\ report.classification.status = "normal"

\* the silent 8-second recording has been analysed
C4_Witness ==
    /\ recPc = "done"
    /\ recIn = SilentRecording
    /\ Len(Expand(recIn)) = 128000
    /\ Len(report.windowFeatures) >= 30
    /\ report.classification.status \in {"normal", "abnormal"}

(***************************************************************************)
(* C7: slidingWindowAnalysis with hopSize >= 1 emits one frame for exactly *)
(* the start offsets 0, hop, 2*hop, ... with start + windowSize <=         *)
(* signal.length, in increasing order (one frame when the length equals    *)
(* windowSize, none when it is shorter), and never a partial frame.        *)
(***************************************************************************)
C7_FramesToTheEnd ==
    winPc = "done" =>
        LET len == Len(winIn.signal)
            starts == {k \in 0..len :
                          k % winIn.hopSize = 0 /\ k + winIn.windowSize <= len}
        IN  /\ Len(winOut) = Cardinality(starts)
            /\ \A n \in 1..Len(winOut) :
                   /\ winOut[n].startSample = (n - 1) * winIn.hopSize
                   /\ winOut[n].startSample + winIn.windowSize <= len

(***************************************************************************)
(* C8: removeNoise(signal, t) returns an array of the same length.  As     *)
(* stated: sample i is 0 when |signal[i]| is below t and signal[i]         *)
(* otherwise, a sample with |signal[i]| = t included.                      *)
(***************************************************************************)
C8_EqualKept ==
    noisePc = "done" =>
        /\ Len(noiseOut) = Len(noiseIn.signal)
        /\ \A i \in 1..Len(noiseIn.signal) :
               noiseOut[i] = IF Abs(noiseIn.signal[i]) < noiseIn.noiseThreshold
                             THEN 0 ELSE noiseIn.signal[i]

\* C8 amended: sample i is 0 when |signal[i]| is below or equal to t, and
\* is signal[i] unchanged when |signal[i]| is above t.
C8_EqualZeroed ==
    noisePc = "done" =>
        /\ Len(noiseOut) = Len(noiseIn.signal)
        /\ \A i \in 1..Len(noiseIn.signal) :
               noiseOut[i] = IF Abs(noiseIn.signal[i]) <= noiseIn.noiseThreshold
                             THEN 0 ELSE noiseIn.signal[i]

\* a sample on the threshold was zeroed beside one that was kept
C8_Witness ==
    /\ noisePc = "done"
    /\ \E i, j \in 1..Len(noiseIn.signal) :
        /\ Abs(noiseIn.signal[i]) = noiseIn.noiseThreshold
        /\ noiseOut[i] = 0
        /\ noiseIn.signal[j] < 0
        /\ noiseOut[j] = noiseIn.signal[j]

(***************************************************************************)
(* detectPeaks, stated on its input: the candidates are the source         *)
(* indices of the strict local maxima above the threshold.                 *)
(***************************************************************************)
PeakCandidates ==
    {i \in 1..(Len(peakIn.signal) - 2) :
        /\ peakIn.signal[i + 1] > peakIn.signal[i]
        /\ peakIn.signal[i + 1] > peakIn.signal[i + 2]
        /\ peakIn.signal[i + 1] > peakIn.threshold}

AcceptedPeaks == {peakOut[n].index : n \in 1..Len(peakOut)}

(***************************************************************************)
(* C9: no two accepted peaks are closer than floor(length/20) indices, and *)
(* acceptance is a greedy left-to-right scan: a candidate is accepted iff  *)
(* no accepted peak lies within floor(length/20) positions before it, so   *)
(* an accepted peak is never replaced by a taller later candidate.         *)
(***************************************************************************)
C9_GreedyDistance ==
    peakPc = "done" =>
        LET minDistance == Len(peakIn.signal) \div 20
        IN  /\ \A a, b \in AcceptedPeaks : a < b => b - a >= minDistance
            /\ AcceptedPeaks \subseteq PeakCandidates
            /\ \A c \in PeakCandidates :
                   c \in AcceptedPeaks <=>
                       ~\E a \in AcceptedPeaks : a < c /\ c - a <= minDistance
            /\ \A n \in 1..(Len(peakOut) - 1) :
                   peakOut[n].index < peakOut[n + 1].index

\* a taller candidate inside the window of an accepted peak was dropped,
\* and a later candidate outside it accepted
C9_Witness ==
    /\ peakPc = "done"
    /\ Len(peakIn.signal) \div 20 >= 2
    /\ Len(peakOut) >= 2
    /\ \E c \in PeakCandidates \ AcceptedPeaks :
           \E a \in AcceptedPeaks :
               /\ a < c
               /\ c - a = Len(peakIn.signal) \div 20
               /\ peakIn.signal[c + 1] > peakIn.signal[a + 1]

(***************************************************************************)
(* C10: unimodal signals above the threshold.  Rising(m) and Falling(m)    *)
(* allow equal neighbours; the strict forms do not.                        *)
(***************************************************************************)
AboveThreshold ==
    \A i \in 1..Len(peakIn.signal) : peakIn.signal[i] > peakIn.threshold

RisesThenFalls(m) ==
    /\ 1 < m /\ m < Len(peakIn.signal)
    /\ \A i \in 1..(m - 1) : peakIn.signal[i] <= peakIn.signal[i + 1]
    /\ \A i \in m..(Len(peakIn.signal) - 1) :
           peakIn.signal[i] >= peakIn.signal[i + 1]
    /\ peakIn.signal[1] < peakIn.signal[m]
    /\ peakIn.signal[m] > peakIn.signal[Len(peakIn.signal)]

StrictlyRisesThenFalls(m) ==
    /\ 1 < m /\ m < Len(peakIn.signal)
    /\ \A i \in 1..(m - 1) : peakIn.signal[i] < peakIn.signal[i + 1]
    /\ \A i \in m..(Len(peakIn.signal) - 1) :
           peakIn.signal[i] > peakIn.signal[i + 1]

\* C10 as stated: a signal that increases monotonically and then decreases
\* monotonically, all above the threshold, gives exactly one peak, at its
\* maximum.
C10_UnimodalOnePeak ==
    peakPc = "done" =>
        \A m \in 1..Len(peakIn.signal) :
            (RisesThenFalls(m) /\ AboveThreshold) =>
                /\ Len(peakOut) = 1
                /\ peakOut[1].value = peakIn.signal[m]

\* C10 amended: a signal that increases strictly up to an interior sample
\* and decreases strictly after it, all above the threshold, gives exactly
\* one peak, at that sample.
C10_StrictUnimodalOnePeak ==
    peakPc = "done" =>
        \A m \in 1..Len(peakIn.signal) :
            (StrictlyRisesThenFalls(m) /\ AboveThreshold) =>
                peakOut = <<[index |-> m - 1, value |-> peakIn.signal[m]]>>

\* one peak found on a strictly unimodal signal of four samples
C10_Witness ==
    /\ peakPc = "done"
    /\ Len(peakIn.signal) = 4
    /\ AboveThreshold
    /\ \E m \in 2..3 : StrictlyRisesThenFalls(m)
    /\ Len(peakOut) = 1

(***************************************************************************)
(* C11: analyzeBreathing terminates and returns a report for every finite  *)
(* sample array and every positive integer sample rate, the rates with     *)
(* windowSize = 0 or hopSize = 0 included.                                 *)
(***************************************************************************)
C11_Terminates == <>(run.pc = "done")

(***************************************************************************)
(* C12: when no frame is produced, analyzeBreathing computes avgEnergy,    *)
(* avgRMS, avgZCR and energyVariance as 0, never NaN, and stabilityScore   *)
(* is a number.                                                            *)
(***************************************************************************)
C12_EmptyMeansZero ==
    (recPc = "done" /\ Len(report.windowFeatures) = 0) =>
        /\ report.features.avgEnergy = 0
        /\ report.features.avgRMS = 0
        /\ report.features.avgZCR = 0
        /\ report.features.energyVariance = 0
        /\ ~IsNaN(report.classification.stabilityScore)

(***************************************************************************)
(* C13: calculateZCR returns 0 for a frame of length 0 or 1.               *)
(***************************************************************************)
C13_DegenerateZero ==
    (featPc = "done" /\ Len(featIn) <= 1) => featOut.zcr = 0

(***************************************************************************)
(* C14: calculateZCR on a frame of length L >= 2 is the number of adjacent *)
(* pairs with one sample >= 0 and the other < 0, divided by L - 1: 1 for a *)
(* signal alternating +1/-1 every sample, 0 for a constant non-negative    *)
(* signal.                                                                 *)
(***************************************************************************)
C14_CrossingRate ==
    (featPc = "done" /\ Len(featIn) >= 2) =>
        LET L == Len(featIn)
            pairs == {i \in 1..(L - 1) :
                         \/ featIn[i] >= 0 /\ featIn[i + 1] < 0
                         \/ featIn[i] < 0 /\ featIn[i + 1] >= 0}
            alternating == \A i \in 1..(L - 1) :
                               /\ featIn[i] # 0
                               /\ featIn[i + 1] = 0 - featIn[i]
            constant == \A i \in 1..L : featIn[i] = featIn[1] /\ featIn[i] >= 0
        IN  /\ featOut.zcr = (Cardinality(pairs) * 1000) \div (L - 1)
            /\ alternating => featOut.zcr = 1000
            /\ constant => featOut.zcr = 0

\* the rate of a frame of four samples alternating +1, -1, +1, -1
C14_Witness ==
    /\ featPc = "done"
    /\ featIn = <<1000, 0 - 1000, 1000, 0 - 1000>>
    /\ featOut.zcr = 1000

C16_ZeroCapacityRejected ==
    cb.size = 0 => Len(delivered) = 0

(***************************************************************************)
(* C17: clear() sets count to 0 and keeps the backing store and the        *)
(* capacity; toArray() right after clear() is empty, and after clear() and *)
(* any pushes toArray() is what a freshly constructed buffer of the same   *)
(* capacity gives after the same pushes.                                   *)
(***************************************************************************)
C17_ClearAsFresh ==
    /\ [](/\ cbOp = "clear" => (cb.count = 0 /\ toArray(cb) = <<>>)
          /\ toArray(cb) = toArray(pushArray(CircularBuffer(cb.size), delivered)))
    /\ [][cbOp' = "clear" => (cb'.buffer = cb.buffer /\ cb'.size = cb.size)]_vars

\* the first push after a clear(): the store still holds older samples
C17_Witness ==
    /\ cbOp = "push"
    /\ Len(delivered) = 1
    /\ cb.count = 1
    /\ toArray(cb) = delivered
    /\ \E i \in 1..(cb.size - 1) : cb.buffer[i] # 0

(***************************************************************************)
(* C18: a writer pushing and a reader calling toArray, each call atomic:   *)
(* under every interleaving the array a read returns is the last           *)
(* min(n, C) values pushed before it, in push order, n the number of       *)
(* pushes completed before the read; nothing is skipped or reordered.      *)
(***************************************************************************)
C18_ReadsSeeCompletedPushes ==
    cbOp = "toArray" =>
        LET n == Len(delivered)
            k == Len(cbResult)
        IN  /\ k = Min(n, cb.size)
            /\ \A i \in 1..k : cbResult[i] = delivered[n - k + i]

\* a read after the writer has wrapped around, returning distinct samples
C18_Witness ==
    /\ cbOp = "toArray"
    /\ Len(delivered) > cb.size
    /\ cb.head # 0
    /\ Len(cbResult) = cb.size
    /\ cbResult[1] # cbResult[Len(cbResult)]

(***************************************************************************)
(* C19: when status is 'normal', breathingType is 'deep' if avgRMS > 0.06  *)
(* and breathingRate < 14; otherwise 'slow' if avgRMS <= 0.06 (0.06        *)
(* itself included) and breathingRate < 12; otherwise 'regular'.           *)
(***************************************************************************)
C19_TypeRule ==
    (clsPc = "done" /\ clsOut.classification.status = "normal") =>
        clsOut.classification.breathingType =
            IF Gt(featureMap.avgRMS, 60) /\ featureMap.breathingRate < 1400
            THEN "deep"
            ELSE IF /\ ~IsNaN(featureMap.avgRMS) /\ featureMap.avgRMS <= 60
                    /\ featureMap.breathingRate < 1200
                 THEN "slow"
                 ELSE "regular"

(***************************************************************************)
(* C20: analyzeBreathing sets breathingRate to                             *)
(* (peaks.length / (audioData.length / sampleRate)) * 60 when more than    *)
(* one peak is detected and to 12 when zero or one is; with the default    *)
(* 12 the breathing-rate check does not trigger.                           *)
(***************************************************************************)
C20_RateRule ==
    recPc = "done" =>
        LET p == Len(report.peaks)
            rate == report.features.breathingRate
            shortness == {i \in 1..Len(report.abnormalities) :
                             report.abnormalities[i].type = "shortness"}
        IN  /\ p = report.features.peakCount
            /\ p > 1 => rate = (p * 60 * 100 * recIn.sampleRate) \div recIn.length
            /\ p <= 1 => (rate = 1200 /\ shortness = {})

\* two or more peaks gave a rate outside [10, 18], reported as an abnormality
C20_Witness ==
    /\ recPc = "done"
    /\ Len(report.peaks) > 1
    /\ report.features.breathingRate > 1800
    /\ \E i \in 1..Len(report.abnormalities) :
           report.abnormalities[i].type = "shortness"

(***************************************************************************)
(* The events in the queue the classifier left, by description.            *)
(***************************************************************************)
ClsItems == clsOut.abnormalityQueue.items

SpikeEvents ==
    {i \in 1..Len(ClsItems) :
        ClsItems[i].element.description = "Sudden energy spikes (cough/gasp pattern)"}

SpecificEvents ==
    {i \in 1..Len(ClsItems) :
        ClsItems[i].element.description \in
            {"Wheezing pattern detected (high frequency)",
             "Irregular breathing rhythm detected",
             "Slow breathing rate (Bradypnea)",
             "Rapid breathing rate (Tachypnea)",
             "Sudden energy spikes (cough/gasp pattern)"}}

(***************************************************************************)
(* C21: for every run of the classifier the returned stabilityScore and    *)
(* confidenceScore are within [0, 100]; confidenceScore is                 *)
(* round(max(75, 100 - abnormalityScore)) when normal and                  *)
(* round(min(95, abnormalityScore + 35)) when abnormal.                    *)
(***************************************************************************)
C21_ScoresInRange ==
    clsPc = "done" =>
        LET c == clsOut.classification
            a == clsOut.abnormalityScore
        IN  /\ c.stabilityScore \in 0..100
            /\ c.confidenceScore \in 0..100
            /\ c.status = "normal" =>
                   c.confidenceScore
                       = (Max(75 * 9000, 100 * 9000 - a) + 4500) \div 9000
            /\ c.status = "abnormal" =>
                   c.confidenceScore
                       = (Min(95 * 9000, a + 35 * 9000) + 4500) \div 9000

(***************************************************************************)
(* C25: the energy-spike check.  As stated: it counts only transitions at  *)
(* frames beyond the 3rd in which a frame's energy exceeds 3 times the     *)
(* previous frame's, and triggers iff more than one is counted.            *)
(***************************************************************************)
C25_SpikesBeyondThird ==
    clsPc = "done" =>
        LET w == featureMap.windowFeatures
            spikes == {i \in 4..Len(w) : w[i].energy > 3 * w[i - 1].energy}
        IN  SpikeEvents # {} <=> Cardinality(spikes) > 1

\* C25 amended: with more than 3 frames the check counts every frame after
\* the first whose energy exceeds 3 times the previous frame's (spikes
\* within the first three frames included), with 3 frames or fewer it
\* counts nothing; it triggers iff more than one spike is counted, and then
\* enqueues one event of severity min(80, 20 * spikeCount) and percentage
\* round(severity), adds severity * 0.25 to abnormalityScore and makes the
\* status abnormal.
C25_SpikesInAllFrames ==
    clsPc = "done" =>
        LET w == featureMap.windowFeatures
            spikes == IF Len(w) > 3
                      THEN {i \in 2..Len(w) : w[i].energy > 3 * w[i - 1].energy}
                      ELSE {}
            count == Cardinality(spikes)
            without == classifyBreathing(
                           [featureMap EXCEPT !.windowFeatures = <<>>],
                           PriorityQueue)
        IN  IF count > 1
            THEN /\ Cardinality(SpikeEvents) = 1
                 /\ \A i \in SpikeEvents :
                        /\ ClsItems[i].priority = Min(80, 20 * count) * 9000
                        /\ ClsItems[i].element.percentage = Min(80, 20 * count)
                 /\ clsOut.abnormalityScore
                        = without.abnormalityScore + (Min(80, 20 * count) * 9000) \div 4
                 /\ clsOut.classification.status = "abnormal"
            ELSE /\ SpikeEvents = {}
                 /\ clsOut.abnormalityScore = without.abnormalityScore

\* four frames whose two spikes are both within the first three frames
C25_Witness ==
    /\ clsPc = "done"
    /\ Len(featureMap.windowFeatures) = 4
    /\ featureMap.windowFeatures[2].energy > 3 * featureMap.windowFeatures[1].energy
    /\ featureMap.windowFeatures[3].energy > 3 * featureMap.windowFeatures[2].energy
    /\ ~(featureMap.windowFeatures[4].energy > 3 * featureMap.windowFeatures[3].energy)
    /\ Cardinality(SpikeEvents) = 1
    /\ Len(ClsItems) = 1
    /\ clsOut.classification.status = "abnormal"

(***************************************************************************)
(* C26: every event's reported percentage is an integer within [25, 100],  *)
(* also when its severity (its priority) is below 25 or above 100; at most *)
(* five events are reported, at most one per check.                        *)
(***************************************************************************)
C26_PercentagesClamped ==
    clsPc = "done" =>
        /\ Len(ClsItems) <= 5
        /\ \A i \in 1..Len(ClsItems) :
               ClsItems[i].element.percentage \in 25..100
        /\ \A i, j \in 1..Len(ClsItems) :
               i # j => /\ ClsItems[i].element.description
                            # ClsItems[j].element.description
                        /\ (ClsItems[i].element.type = ClsItems[j].element.type
                               => ClsItems[i].element.type = "irregular")

\* all five checks triggered, the rate event with a severity above 100
C26_Witness ==
    /\ clsPc = "done"
    /\ Len(ClsItems) = 5
    /\ \E i \in 1..Len(ClsItems) :
        /\ ClsItems[i].element.type = "shortness"
        /\ ClsItems[i].priority > 100 * 9000
        /\ ClsItems[i].element.percentage = 100

(***************************************************************************)
(* C28: if the status is 'abnormal' the list holds at least one event of   *)
(* check 1, 2, 3 or 5, so the generic 'General breathing irregularity'     *)
(* event is never produced; if it is 'normal' the list is empty or holds   *)
(* exactly one event, of type 'noise', and abnormalityScore is 0 or 15.    *)
(***************************************************************************)
C28_NoGenericEvent ==
    clsPc = "done" =>
        /\ \A i \in 1..Len(ClsItems) :
               ClsItems[i].element.description # "General breathing irregularity"
        /\ clsOut.classification.status = "abnormal" => SpecificEvents # {}
        /\ clsOut.classification.status = "normal" =>
               \/ ClsItems = <<>> /\ clsOut.abnormalityScore = 0
               \/ /\ Len(ClsItems) = 1
                  /\ ClsItems[1].element.type = "noise"
                  /\ clsOut.abnormalityScore = 15 * 9000

\* abnormal on a single event and a score below 20
C28_Witness ==
    /\ clsPc = "done"
    /\ clsOut.classification.status = "abnormal"
    /\ Len(ClsItems) = 1
    /\ clsOut.abnormalityScore < 20 * 9000

(***************************************************************************)
(* C29: with at least one frame and status 'normal', energyVariance is at  *)
(* most 0.0005, hence stabilityScore >= 92.5 and lungComfort is 'Good',    *)
(* never 'Moderate' or 'Fair'; 'Needs Attention' is returned exactly when  *)
(* the status is 'abnormal'.                                               *)
(***************************************************************************)
C29_NormalIsGood ==
    clsPc = "done" =>
        LET c == clsOut.classification
        IN  /\ (Len(featureMap.windowFeatures) >= 1 /\ c.status = "normal") =>
                   /\ featureMap.energyVariance <= 50
                   /\ 2 * c.stabilityScore >= 185
                   /\ c.lungComfort = "Good"
            /\ c.lungComfort = "Needs Attention" <=> c.status = "abnormal"

\* a normal run with the variance on its threshold
C29_Witness ==
    /\ clsPc = "done"
    /\ Len(featureMap.windowFeatures) >= 1
    /\ featureMap.energyVariance = 50
    /\ clsOut.classification.status = "normal"
    /\ clsOut.classification.lungComfort = "Good"

(***************************************************************************)
(* C24: every peak returned by detectPeaks has an index i with             *)
(* 1 <= i < length - 1, signal[i] strictly greater than both neighbours    *)
(* and than the threshold (never a plateau or an end point); the peaks are *)
(* in strictly increasing index order, each with value = signal[index].    *)
(***************************************************************************)
C24_StrictLocalMaxima ==
    peakPc = "done" =>
        /\ \A n \in 1..Len(peakOut) :
               LET i == peakOut[n].index
               IN  /\ 1 <= i /\ i < Len(peakIn.signal) - 1
                   /\ peakIn.signal[i + 1] > peakIn.signal[i]
                   /\ peakIn.signal[i + 1] > peakIn.signal[i + 2]
                   /\ peakIn.signal[i + 1] > peakIn.threshold
                   /\ peakOut[n].value = peakIn.signal[i + 1]
        /\ \A n \in 1..(Len(peakOut) - 1) :
               peakOut[n].index < peakOut[n + 1].index

\* a peak was returned from a signal that also has a plateau above the
\* threshold, which was not
C24_Witness ==
    /\ peakPc = "done"
    /\ Len(peakOut) >= 1
    /\ \E j \in 2..(Len(peakIn.signal) - 1) :
        /\ peakIn.signal[j] = peakIn.signal[j - 1]
        /\ peakIn.signal[j] > peakIn.signal[j + 1]
        /\ peakIn.signal[j] > peakIn.threshold
        /\ \A n \in 1..Len(peakOut) : peakOut[n].index # j - 1

(***************************************************************************)
(* C27: in every reachable state of a CircularBuffer of capacity C >= 1,   *)
(* 0 <= count <= C, 0 <= head < C, 0 <= tail < C and                       *)
(* tail = (head + count) mod C; head stays 0 until the buffer is full.     *)
(***************************************************************************)
C27_BufferInvariants ==
    /\ cb.size >= 1
    /\ 0 <= cb.count /\ cb.count <= cb.size
    /\ 0 <= cb.head /\ cb.head < cb.size
    /\ 0 <= cb.tail /\ cb.tail < cb.size
    /\ cb.tail = (cb.head + cb.count) % cb.size
    /\ cb.count < cb.size => cb.head = 0
    /\ Len(delivered) <= cb.size => cb.head = 0

\* a full buffer that has evicted: head and tail meet away from slot 0
C27_Witness ==
    /\ cb.size >= 2
    /\ cb.count = cb.size
    /\ cb.head # 0
    /\ cb.tail = cb.head
    /\ cbOp = "push"

(***************************************************************************)
(* C30: toArray() leaves head, tail, count and the backing store unchanged *)
(* and returns a new array: two toArray() calls with no push or clear in   *)
(* between return equal contents, and a push or clear after a toArray()    *)
(* does not change the array that call returned.                           *)
(***************************************************************************)
C30_ToArrayReadsOnly ==
    /\ [][cbOp' = "toArray" => (cb' = cb /\ cbResult' = toArray(cb))]_vars
    /\ [][(cbOp = "toArray" /\ cbOp' = "toArray") => cbResult' = cbResult]_vars
    /\ [][cbOp' \in {"push", "pushArray", "clear"} => cbResult' = cbResult]_vars

\* a push after a read: the array returned earlier still has the old contents
C30_Witness ==
    /\ cbOp = "push"
    /\ Len(cbResult) = cb.size
    /\ cbResult # toArray(cb)
    /\ Len(delivered) > cb.size

(***************************************************************************)
(* C23: the report's abnormalities list is the queue's contents in queue   *)
(* order (non-increasing severity), each record the element's fields plus  *)
(* a 'severity' field equal to the priority it was enqueued with; getAll() *)
(* leaves the queue unchanged.                                             *)
(***************************************************************************)
C23_AbnormalitiesAreQueue ==
    recPc = "done" =>
        LET list == report.abnormalities
            queue == classifyBreathing(report.features, PriorityQueue).abnormalityQueue
        IN  /\ pq = queue
            /\ Len(list) = Len(queue.items)
            /\ \A i \in 1..Len(list) :
                   /\ DOMAIN list[i]
                          = DOMAIN queue.items[i].element \cup {"severity"}
                   /\ list[i].severity = queue.items[i].priority
                   /\ \A f \in DOMAIN queue.items[i].element :
                          list[i][f] = queue.items[i].element[f]
            /\ \A i \in 1..(Len(list) - 1) :
                   list[i].severity >= list[i + 1].severity

\* a report listing three events of different severities
C23_Witness ==
    /\ recPc = "done"
    /\ Len(report.abnormalities) >= 3
    /\ report.abnormalities[1].severity > report.abnormalities[2].severity
    /\ report.abnormalities[2].severity > report.abnormalities[3].severity
    /\ Len(pq.items) = Len(report.abnormalities)

(***************************************************************************)
(* C22: the FeatureMap history is append-only and its snapshots are        *)
(* immutable copies.  As stated: each snapshot() appends exactly one       *)
(* entry, no operation of the FeatureMap removes or reorders earlier       *)
(* entries, and a set after a snapshot changes no earlier history entry    *)
(* and no snapshot returned before.                                        *)
(***************************************************************************)
C22_HistoryAppendOnly ==
    [][/\ Len(fmap'.history) >= Len(fmap.history)
       /\ SubSeq(fmap'.history, 1, Len(fmap.history)) = fmap.history
       /\ fmOp'.op = "snapshot" =>
              Len(fmap'.history) <= Len(fmap.history) + 1
       /\ SubSeq(fmSnaps', 1, Len(fmSnaps)) = fmSnaps]_vars

\* C22 amended: each snapshot() appends exactly one entry (the Map's
\* entries plus timestamp) and returns a copy of the Map's entries; set,
\* get and getHistory leave the history as it is, and no set changes an
\* earlier entry or a snapshot returned before; clear() is the one
\* operation that removes entries: it empties the Map and the history.
C22_HistoryUntilClear ==
    [][/\ fmOp'.op = "clear" =>
              (fmap'.history = <<>> /\ fmap'.features = [k \in FMKeys |-> 0])
       /\ fmOp'.op \in {"set", "get", "getHistory"} =>
              fmap'.history = fmap.history
       /\ fmOp'.op = "snapshot" =>
              /\ Len(fmap'.history) = Len(fmap.history) + 1
              /\ SubSeq(fmap'.history, 1, Len(fmap.history)) = fmap.history
              /\ \A k \in FMKeys :
                     fmap'.history[Len(fmap'.history)][k] = fmap.features[k]
              /\ fmap'.features = fmap.features
       /\ SubSeq(fmSnaps', 1, Len(fmSnaps)) = fmSnaps]_vars

\* a set after a snapshot: the entry in the history keeps the old value
C22_Witness ==
    /\ fmOp.op = "set"
    /\ Len(fmap.history) = 1
    /\ \E k \in FMKeys :
        /\ fmap.history[1][k] # 0
        /\ fmap.features[k] # fmap.history[1][k]
        /\ fmSnaps[1][k] = fmap.history[1][k]

====
